---------------------------- MODULE Spec2Model ----------------------------
(***************************************************************************)
(* A model of merge_master.py: the file discoverer (get_merge_files), the  *)
(* three mergers (merge_word_documents, merge_pdf_documents,               *)
(* merge_ppt_documents) and the main program that selects one of them.     *)
(*                                                                         *)
(* The file system is the environment.  What a directory listing, an open  *)
(* of a source file or a save returns is drawn with \E at the step that    *)
(* asks for it; what each open returned is kept in `opened`, so that the   *)
(* accumulator can be compared with what was read.                         *)
(***************************************************************************)
EXTENDS Integers, Sequences, FiniteSets, TLC

VARIABLES
    pc,               \* position of the single thread of control
    MERGE_TYPE,       \* configuration constant, line 11 (any string)
    folderExists,     \* os.path.exists(SOURCE_FOLDER)
    globbed,          \* what glob.glob returned, in file-system order
    files,            \* files_list: the sorted paths
    i,                \* 1-based index of the next file of the loop
    opened,           \* what each open of a source file returned, in order
    master_doc,       \* the Word accumulator: whether created, its body
    merger,           \* the PdfWriter: whether created, its pages
    master_prs,       \* the base deck: whether opened, its layouts and slides
    layout_name_map,  \* the dict name -> layout index, as a set of pairs
    output,           \* the file at each output path
    log,              \* the lines printed so far
    error             \* the uncaught exception that ended the run, or None

vars == <<pc, MERGE_TYPE, folderExists, globbed, files, i, opened, master_doc,
          merger, master_prs, layout_name_map, output, log, error>>

None == "None"

(***************************************************************************)
(* Bounds of the model.                                                    *)
(***************************************************************************)
MaxUnits == 2     \* body paragraphs of a .docx, pages of a .pdf
MaxBaseSlides == 1 \* slides the base deck holds before the merge
MaxNewSlides == 3  \* slides of the decks after the first, altogether

(***************************************************************************)
(* Strings.  A file name or a merge type is an atom in the state; Chars    *)
(* gives its characters and Ord a character's code point, which is what    *)
(* str comparison, str.lower and the glob pattern work on.                 *)
(***************************************************************************)
DocxNames == {"B.docx", "a-b.docx", "a.docx"}
PdfNames == {"a.pdf", "b.pdf", "c.pdf"}
PptxNames == {"x.pptx", "X.pptx", "xy.pptx"}
OtherNames == {"notes.txt", ".h.pdf"}
Universe == DocxNames \cup PdfNames \cup PptxNames \cup OtherNames

MergeTypes == {"word", "Word", "pdf", "PDF", "ppt", "xls", ""}

Chars(s) ==
    CASE s = "B.docx"    -> <<"B", ".", "d", "o", "c", "x">>
      [] s = "a-b.docx"  -> <<"a", "-", "b", ".", "d", "o", "c", "x">>
      [] s = "a.docx"    -> <<"a", ".", "d", "o", "c", "x">>
      [] s = "a.pdf"     -> <<"a", ".", "p", "d", "f">>
      [] s = "b.pdf"     -> <<"b", ".", "p", "d", "f">>
      [] s = "c.pdf"     -> <<"c", ".", "p", "d", "f">>
      [] s = "x.pptx"    -> <<"x", ".", "p", "p", "t", "x">>
      [] s = "X.pptx"    -> <<"X", ".", "p", "p", "t", "x">>
      [] s = "xy.pptx"   -> <<"x", "y", ".", "p", "p", "t", "x">>
      [] s = "notes.txt" -> <<"n", "o", "t", "e", "s", ".", "t", "x", "t">>
      [] s = ".h.pdf"    -> <<".", "h", ".", "p", "d", "f">>
      [] s = "docx"      -> <<"d", "o", "c", "x">>
      [] s = "pptx"      -> <<"p", "p", "t", "x">>
      [] s = "word"      -> <<"w", "o", "r", "d">>
      [] s = "Word"      -> <<"W", "o", "r", "d">>
      [] s = "pdf"       -> <<"p", "d", "f">>
      [] s = "PDF"       -> <<"P", "D", "F">>
      [] s = "ppt"       -> <<"p", "p", "t">>
      [] s = "xls"       -> <<"x", "l", "s">>
      [] s = "files_to_merge" ->
            <<"f", "i", "l", "e", "s", "_", "t", "o", "_", "m", "e", "r", "g", "e">>
      [] OTHER           -> <<>>

Ord(c) ==
    CASE c = "-" -> 45  [] c = "." -> 46  [] c = "/" -> 47
      [] c = "B" -> 66  [] c = "D" -> 68  [] c = "F" -> 70
      [] c = "P" -> 80  [] c = "W" -> 87  [] c = "X" -> 88
      [] c = "_" -> 95
      [] c = "a" -> 97  [] c = "b" -> 98  [] c = "c" -> 99
      [] c = "d" -> 100 [] c = "e" -> 101 [] c = "f" -> 102
      [] c = "g" -> 103 [] c = "h" -> 104 [] c = "i" -> 105
      [] c = "l" -> 108 [] c = "m" -> 109 [] c = "n" -> 110
      [] c = "o" -> 111 [] c = "p" -> 112 [] c = "r" -> 114
      [] c = "s" -> 115 [] c = "t" -> 116 [] c = "w" -> 119
      [] c = "x" -> 120 [] c = "y" -> 121

\* str.lower on one character
LowerChar(c) ==
    CASE c = "B" -> "b" [] c = "D" -> "d" [] c = "F" -> "f"
      [] c = "P" -> "p" [] c = "W" -> "w" [] c = "X" -> "x"
      [] OTHER -> c

\* MERGE_TYPE.lower(), lines 158, 164, 170
lower(cs) == [k \in 1..Len(cs) |-> LowerChar(cs[k])]

SOURCE_FOLDER == "files_to_merge"

\* os.path.join(directory, name), line 29
FullPath(name) == Chars(SOURCE_FOLDER) \o <<"/">> \o Chars(name)

\* s < t for two str values: the first differing code point decides, and a
\* proper prefix is smaller
RECURSIVE LexLess(_, _)
LexLess(s, t) ==
    IF t = <<>> THEN FALSE
    ELSE IF s = <<>> THEN TRUE
    ELSE IF Ord(Head(s)) # Ord(Head(t)) THEN Ord(Head(s)) < Ord(Head(t))
    ELSE LexLess(Tail(s), Tail(t))

PathLess(a, b) == LexLess(FullPath(a), FullPath(b))

\* whether cs ends with "." followed by the extension
EndsWithExt(cs, ext) ==
    LET e == <<".">> \o Chars(ext)
    IN  /\ Len(cs) >= Len(e)
        /\ SubSeq(cs, Len(cs) - Len(e) + 1, Len(cs)) = e

\* the names of the folder the pattern <directory>/*.<ext> matches: the star
\* matches any run of characters, but no leading dot
GlobMatches(folder, ext) ==
    {n \in folder : EndsWithExt(Chars(n), ext) /\ Head(Chars(n)) # "."}

\* every order in which a set of names can be enumerated
RECURSIVE Orders(_)
Orders(S) ==
    IF S = {} THEN {<<>>}
    ELSE UNION {{<<x>> \o o : o \in Orders(S \ {x})} : x \in S}

\* sorted(): the ascending rearrangement (insertion into the sorted prefix)
RECURSIVE InsertSorted(_, _)
InsertSorted(x, s) ==
    IF s = <<>> THEN <<x>>
    ELSE IF PathLess(x, Head(s)) THEN <<x>> \o s
    ELSE <<Head(s)>> \o InsertSorted(x, Tail(s))

RECURSIVE sorted(_)
sorted(s) ==
    IF s = <<>> THEN <<>>
    ELSE InsertSorted(s[Len(s)], sorted(SubSeq(s, 1, Len(s) - 1)))

\* a plausible slip: the listing is returned as enumerated
get_merge_files_unsorted(listing) == listing

\* get_merge_files: the glob result, sorted
get_merge_files(listing) == sorted(listing)

(***************************************************************************)
(* Printed lines.                                                          *)
(***************************************************************************)
Msg(m, p, n) == [msg |-> m, path |-> p, n |-> n, deck |-> "", k |-> 0]

Exts == {"docx", "pdf", "pptx"}
NoFile == [kind |-> "absent", content |-> <<>>]
OldFile == [kind |-> "old", content |-> <<>>]
PartialFile == [kind |-> "partial", content |-> <<>>]
Saved(c) == [kind |-> "merged", content |-> c]

Init ==
    /\ pc = "start"
    /\ MERGE_TYPE \in MergeTypes
    /\ folderExists \in BOOLEAN
    /\ globbed = <<>>
    /\ files = <<>>
    /\ i = 0
    /\ opened = <<>>
    /\ master_doc = [created |-> FALSE, body |-> <<>>]
    /\ merger = [created |-> FALSE, pages |-> <<>>]
    /\ master_prs = [created |-> FALSE, layouts |-> <<>>, slides |-> <<>>]
    /\ layout_name_map = {}
    /\ \E pre \in {NoFile, OldFile} : output = [e \in Exts |-> pre]
    /\ log = <<>>
    /\ error = None

(***************************************************************************)
(* Main program, lines 151-178.                                            *)
(***************************************************************************)
\* a plausible slip: the last branch is an else, so any other value runs the
\* slide merge
Kind_ppt_by_default(mt) ==
    LET l == lower(Chars(mt))
    IN  IF l = Chars("word") THEN "word"
        ELSE IF l = Chars("pdf") THEN "pdf"
        ELSE "ppt"

\* the branch of lines 158-176 a merge type selects
Kind(mt) ==
    LET l == lower(Chars(mt))
    IN  IF l = Chars("word") THEN "word"
        ELSE IF l = Chars("pdf") THEN "pdf"
        ELSE IF l = Chars("ppt") THEN "ppt"
        ELSE "invalid"

ExtOf(kind) ==
    CASE kind = "word" -> "docx" [] kind = "pdf" -> "pdf" [] kind = "ppt" -> "pptx"

Main ==
    /\ pc = "start"
    /\ IF ~folderExists
       THEN /\ folderExists' = TRUE
            /\ log' = log \o <<Msg("CreatedSourceDirectory", SOURCE_FOLDER, 0),
                               Msg("PleaseAddFiles", "", 0)>>
            /\ pc' = "done"
            /\ UNCHANGED <<globbed, files>>
       ELSE IF Kind(MERGE_TYPE) = "invalid"
       THEN /\ log' = log \o <<Msg("InvalidMergeType", MERGE_TYPE, 0),
                               Msg("PleaseSetMergeType", "", 0)>>
            /\ pc' = "done"
            /\ UNCHANGED <<folderExists, globbed, files>>
       ELSE /\ \E folder \in SUBSET Universe :
                \E listing \in Orders(GlobMatches(folder, ExtOf(Kind(MERGE_TYPE)))) :
                    /\ globbed' = listing
                    /\ files' = get_merge_files(listing)
            /\ log' = log \o <<Msg("Starting", Kind(MERGE_TYPE), 0)>>
            /\ pc' = Kind(MERGE_TYPE)
            /\ UNCHANGED folderExists
    /\ UNCHANGED <<MERGE_TYPE, i, opened, master_doc, merger, master_prs,
                   layout_name_map, output, error>>

(***************************************************************************)
(* merge_word_documents, lines 34-57.  A body child is a record: the file  *)
(* it was read from, its position there and its tag.                       *)
(***************************************************************************)
Elem(src, n, tag) == [src |-> src, n |-> n, tag |-> tag]

\* Document(): the body of the default template holds a w:sectPr and no
\* paragraph
Document == [created |-> TRUE, body |-> <<Elem("template", 0, "sectPr")>>]

\* the body of a source document with k paragraphs: they are followed by the
\* document's own w:sectPr
Body(path, k) ==
    [n \in 1..(k + 1) |-> Elem(path, n, IF n <= k THEN "p" ELSE "sectPr")]

\* what Document(file_path) can return: a body, or a failure to open
DocxReads(path) ==
    {[path |-> path, ok |-> TRUE, body |-> Body(path, k)] : k \in 0..MaxUnits}
    \cup {[path |-> path, ok |-> FALSE, body |-> <<>>]}

\* lines 47-48: each child of the source body, in order, is appended to the
\* master body (the iterator has stepped to the next sibling before the
\* current child is moved, so no child is skipped)
RECURSIVE move_elements(_, _)
move_elements(master, body) ==
    IF body = <<>> THEN master
    ELSE move_elements(Append(master, Head(body)), Tail(body))

\* position of the first w:sectPr child of a body, 0 when it has none
RECURSIVE FirstSectPr(_, _)
FirstSectPr(body, k) ==
    IF k > Len(body) THEN 0
    ELSE IF body[k].tag = "sectPr" THEN k
    ELSE FirstSectPr(body, k + 1)

InsertAt(s, k, e) == SubSeq(s, 1, k - 1) \o <<e>> \o SubSeq(s, k, Len(s))

\* line 51, master_doc.add_page_break(): python-docx adds the new paragraph
\* with CT_Body.add_p, which inserts it before the first w:sectPr child of
\* the body (its declared successor) and appends it only when the body has
\* none.  The paragraph is marked with the file after which it was asked for.
add_page_break(body, path) ==
    LET k == FirstSectPr(body, 1)
        br == Elem(path, 0, "br")
    IN  IF k = 0 THEN Append(body, br) ELSE InsertAt(body, k, br)

\* a plausible slip: a document that does not open is reported and skipped,
\* as in the PDF merger
word_append_skipping(source_doc, path, last) ==
    IF ~source_doc.ok
    THEN [body |-> master_doc.body,
          log |-> <<Msg("CouldNotMergeSkipping", path, 0)>>, error |-> None]
    ELSE [body |-> move_elements(master_doc.body, source_doc.body),
          log |-> <<>>, error |-> None]

\* lines 46-51 for one file: Document(file_path) is not guarded, so a
\* failure to open leaves the function; otherwise the children are moved
\* and, unless the file is the last of the list, a page break is added
word_append(source_doc, path, last) ==
    IF ~source_doc.ok
    THEN [body |-> master_doc.body, log |-> <<>>, error |-> "OpenError"]
    ELSE LET moved == move_elements(master_doc.body, source_doc.body)
         IN  IF last
             THEN [body |-> moved, log |-> <<>>, error |-> None]
             ELSE [body |-> add_page_break(moved, path),
                   log |-> <<Msg("AddingPageBreak", "", 0)>>, error |-> None]

\* a plausible slip: the accumulator is created before the list is looked at
merge_word_documents_start_unguarded ==
    /\ pc = "word"
    /\ log' = Append(log, Msg("Found", "Word", Len(files)))
    /\ master_doc' = Document
    /\ i' = 1
    /\ pc' = "word_loop"
    /\ UNCHANGED <<MERGE_TYPE, folderExists, globbed, files, opened, merger,
                   master_prs, layout_name_map, output, error>>

merge_word_documents_start ==
    /\ pc = "word"
    /\ IF files = <<>>
       THEN /\ log' = Append(log, Msg("NoFilesFound", "docx", 0))
            /\ pc' = "done"
            /\ UNCHANGED <<master_doc, i>>
       ELSE /\ log' = Append(log, Msg("Found", "Word", Len(files)))
            /\ master_doc' = Document
            /\ i' = 1
            /\ pc' = "word_loop"
    /\ UNCHANGED <<MERGE_TYPE, folderExists, globbed, files, opened, merger,
                   master_prs, layout_name_map, output, error>>

merge_word_documents_file ==
    /\ pc = "word_loop"
    /\ i <= Len(files)
    /\ \E source_doc \in DocxReads(files[i]) :
          LET r == word_append(source_doc, files[i], i = Len(files))
          IN  /\ opened' = Append(opened, source_doc)
              /\ master_doc' = [master_doc EXCEPT !.body = r.body]
              /\ log' = log \o <<Msg("Merging", files[i], 0)>> \o r.log
              /\ error' = r.error
              /\ IF r.error = None
                 THEN i' = i + 1 /\ pc' = pc
                 ELSE i' = i /\ pc' = "aborted"
    /\ UNCHANGED <<MERGE_TYPE, folderExists, globbed, files, merger,
                   master_prs, layout_name_map, output>>

\* what a save can do to the file at the output path: write it whole, or
\* fail (caught and reported) having left it alone or partly written
SaveOutcomes == {"written", "failed_untouched", "failed_partial"}

AfterSave(outcome, ext, content) ==
    CASE outcome = "written" -> [output EXCEPT ![ext] = Saved(content)]
      [] outcome = "failed_untouched" -> output
      [] outcome = "failed_partial" -> [output EXCEPT ![ext] = PartialFile]

merge_word_documents_save ==
    /\ pc = "word_loop"
    /\ i > Len(files)
    /\ \E outcome \in SaveOutcomes :
          /\ output' = AfterSave(outcome, "docx", master_doc.body)
          /\ log' = Append(log, IF outcome = "written"
                                THEN Msg("SuccessfullyMerged", "docx", Len(files))
                                ELSE Msg("ErrorWhileSaving", "docx", 0))
    /\ pc' = "done"
    /\ UNCHANGED <<MERGE_TYPE, folderExists, globbed, files, i, opened,
                   master_doc, merger, master_prs, layout_name_map, error>>

(***************************************************************************)
(* merge_pdf_documents, lines 60-83.  A page is a record: the file it was  *)
(* read from and its number there.                                         *)
(***************************************************************************)
Page(src, n) == [src |-> src, n |-> n]

Pages(path, k) == [n \in 1..k |-> Page(path, n)]

PdfWriter == [created |-> TRUE, pages |-> <<>>]

\* what merger.append(file_path) can find: a document of k pages, or a file
\* that does not open or parse (the failure comes before any page is added)
PdfReads(path) ==
    {[path |-> path, ok |-> TRUE, body |-> Pages(path, k)] : k \in 0..MaxUnits}
    \cup {[path |-> path, ok |-> FALSE, body |-> <<>>]}

\* a plausible slip: the failure is not caught
pdf_append_uncaught(read) ==
    IF read.ok
    THEN [merger |-> [merger EXCEPT !.pages = @ \o read.body],
          log |-> <<>>, error |-> None]
    ELSE [merger |-> merger, log |-> <<>>, error |-> "OpenError"]

\* lines 72-75: the pages are appended; a failure is caught and reported
\* with the file's path
pdf_append(read) ==
    IF read.ok
    THEN [merger |-> [merger EXCEPT !.pages = @ \o read.body],
          log |-> <<>>, error |-> None]
    ELSE [merger |-> merger,
          log |-> <<Msg("CouldNotMergeSkipping", read.path, 0)>>,
          error |-> None]

merge_pdf_documents_start ==
    /\ pc = "pdf"
    /\ IF files = <<>>
       THEN /\ log' = Append(log, Msg("NoFilesFound", "pdf", 0))
            /\ pc' = "done"
            /\ UNCHANGED <<merger, i>>
       ELSE /\ log' = Append(log, Msg("Found", "PDF", Len(files)))
            /\ merger' = PdfWriter
            /\ i' = 1
            /\ pc' = "pdf_loop"
    /\ UNCHANGED <<MERGE_TYPE, folderExists, globbed, files, opened,
                   master_doc, master_prs, layout_name_map, output, error>>

merge_pdf_documents_file ==
    /\ pc = "pdf_loop"
    /\ i <= Len(files)
    /\ \E read \in PdfReads(files[i]) :
          LET r == pdf_append(read)
          IN  /\ opened' = Append(opened, read)
              /\ merger' = r.merger
              /\ log' = log \o <<Msg("Merging", files[i], 0)>> \o r.log
              /\ error' = r.error
              /\ IF r.error = None
                 THEN i' = i + 1 /\ pc' = pc
                 ELSE i' = i /\ pc' = "aborted"
    /\ UNCHANGED <<MERGE_TYPE, folderExists, globbed, files, master_doc,
                   master_prs, layout_name_map, output>>

merge_pdf_documents_save ==
    /\ pc = "pdf_loop"
    /\ i > Len(files)
    /\ \E outcome \in SaveOutcomes :
          /\ output' = AfterSave(outcome, "pdf", merger.pages)
          /\ log' = log \o <<Msg("SavingFinalDocument", "", 0),
                              IF outcome = "written"
                              THEN Msg("SuccessfullyMerged", "pdf", Len(files))
                              ELSE Msg("ErrorWhileSaving", "pdf", 0)>>
    /\ pc' = "done"
    /\ UNCHANGED <<MERGE_TYPE, folderExists, globbed, files, i, opened,
                   master_doc, merger, master_prs, layout_name_map, error>>

(***************************************************************************)
(* merge_ppt_documents, lines 86-147.                                      *)
(***************************************************************************)
Layout(name, idxs) == [name |-> name, idxs |-> idxs]

\* the layout lists of the base decks tried: one, two and three layouts,
\* and two layouts of one name
LayoutLists ==
    { <<Layout("Title", {0, 1})>>,
      <<Layout("Title", {0, 1}), Layout("Content", {1})>>,
      <<Layout("Title", {0}), Layout("Title", {0, 1})>>,
      <<Layout("Content", {1}), Layout("Title", {0, 1}), Layout("Title", {0})>> }

RECURSIVE SeqsUpTo(_, _)
SeqsUpTo(S, n) ==
    IF n = 0 THEN {<<>>}
    ELSE LET shorter == SeqsUpTo(S, n - 1)
         IN  shorter \cup {Append(q, x) : q \in {r \in shorter : Len(r) = n - 1}, x \in S}

\* a shape of a source slide, as the placeholder loop sees it: whether it is
\* a placeholder, whether its placeholder_format can be read, its idx,
\* whether it has a text frame, and its text
Shape(isph, pf, idx, tf, text) ==
    [is_placeholder |-> isph, placeholder_format |-> pf, idx |-> idx,
     has_text_frame |-> tf, text |-> text]

Slide(layoutName, shapes) == [layout |-> layoutName, placeholders |-> shapes]

SlidePool ==
    { Slide("Title",   <<Shape(FALSE, FALSE, 0, TRUE, "x1"),
                         Shape(TRUE, TRUE, 0, TRUE, "t1"),
                         Shape(TRUE, TRUE, 1, FALSE, ""),
                         Shape(TRUE, TRUE, 1, TRUE, "b1")>>),
      Slide("Custom",  <<Shape(TRUE, TRUE, 2, TRUE, "z2"),
                         Shape(TRUE, TRUE, 1, TRUE, "b2")>>),
      Slide("Content", <<Shape(TRUE, FALSE, 0, TRUE, "p3"),
                         Shape(TRUE, TRUE, 1, TRUE, "b3")>>) }

\* what Presentation(path) can return: a deck, or a failure to open.  Of the
\* base deck the layouts and the slides it already holds matter; of a later
\* deck, its slides.
BaseReads(path) ==
    {[path |-> path, ok |-> TRUE, layouts |-> ls, nslides |-> n, slides |-> <<>>] :
        ls \in LayoutLists, n \in 0..MaxBaseSlides}
    \cup {[path |-> path, ok |-> FALSE, layouts |-> <<>>, nslides |-> 0, slides |-> <<>>]}

DeckReads(path, room) ==
    {[path |-> path, ok |-> TRUE, layouts |-> <<>>, nslides |-> Len(sl), slides |-> sl] :
        sl \in SeqsUpTo(SlidePool, room)}
    \cup {[path |-> path, ok |-> FALSE, layouts |-> <<>>, nslides |-> 0, slides |-> <<>>]}

\* a slide of the base deck: where it came from, the index of the base layout
\* it was created from (-1 for a slide the base deck already held), and the
\* text of each of its placeholders by idx, as a set of pairs
BaseSlide(path, k) == [deck |-> path, k |-> k, layout |-> -1, texts |-> {}]

HasIdx(texts, idx) == \E t \in texts : t[1] = idx
TextAt(texts, idx) == (CHOOSE t \in texts : t[1] = idx)[2]
SetText(texts, idx, text) == {t \in texts : t[1] # idx} \cup {<<idx, text>>}

\* line 107: the dict comprehension over slide_layouts; a later layout of the
\* same name replaces the earlier entry.  k is the 1-based position, the
\* entry holds the 0-based index.
RECURSIVE build_layout_name_map(_, _)
build_layout_name_map(layouts, k) ==
    IF k = 0 THEN {}
    ELSE LET before == build_layout_name_map(layouts, k - 1)
         IN  {e \in before : e[1] # layouts[k].name} \cup {<<layouts[k].name, k - 1>>}

\* layout_name_map.get(name): the index, or None
MapGet(map, name) ==
    IF \E e \in map : e[1] = name
    THEN (CHOOSE e \in map : e[1] = name)[2]
    ELSE -1

FallbackIndex == 1

MsgAt(m, p, n, deck, k) == [msg |-> m, path |-> p, n |-> n, deck |-> deck, k |-> k]

\* lines 124-125: add_slide makes the new slide with one empty placeholder
\* per placeholder of the layout
add_slide(layouts, index, path, k) ==
    [deck |-> path, k |-> k, layout |-> index,
     texts |-> {<<idx, "">> : idx \in layouts[index + 1].idxs}]

\* lines 128-136: the loop over slide.placeholders.  st holds the new
\* slide's texts, the lines printed and the exception that left the loop.
\* A shape whose placeholder_format cannot be read raises AttributeError at
\* line 132; the handler's own message reads ph.placeholder_format.idx again
\* (line 136), so the exception leaves the handler and the loop.
RECURSIVE copy_placeholders(_, _, _, _)
copy_placeholders(st, shapes, path, k) ==
    IF shapes = <<>> \/ st.error # None THEN st
    ELSE LET ph == Head(shapes)
             next ==
               IF ~ph.is_placeholder THEN st
               ELSE IF ~ph.placeholder_format
               THEN [st EXCEPT !.error = "AttributeError"]
               ELSE IF ~HasIdx(st.texts, ph.idx)
               THEN [st EXCEPT !.log = Append(@,
                        MsgAt("CouldNotCopyPlaceholder", "", ph.idx, path, k))]
               ELSE IF ph.has_text_frame
               THEN [st EXCEPT !.texts = SetText(@, ph.idx, ph.text)]
               ELSE st
         IN  copy_placeholders(next, Tail(shapes), path, k)

\* slide.shapes.title: the first placeholder whose idx is 0
RECURSIVE TitleOf(_)
TitleOf(shapes) ==
    IF shapes = <<>> THEN [found |-> FALSE, text |-> ""]
    ELSE IF Head(shapes).is_placeholder /\ Head(shapes).placeholder_format
            /\ Head(shapes).idx = 0
    THEN [found |-> TRUE, text |-> Head(shapes).text]
    ELSE TitleOf(Tail(shapes))

\* lines 139-141
copy_title(texts, shapes) ==
    IF TitleOf(shapes).found /\ HasIdx(texts, 0)
    THEN SetText(texts, 0, TitleOf(shapes).text)
    ELSE texts

\* lines 116-122: the layout of the name, or with a warning the base deck's
\* slide_layouts[1], which raises IndexError when there is no such layout
resolve_layout(map, layouts, name) ==
    IF MapGet(map, name) # -1
    THEN [index |-> MapGet(map, name), warned |-> FALSE, error |-> None]
    ELSE IF FallbackIndex < Len(layouts)
    THEN [index |-> FallbackIndex, warned |-> TRUE, error |-> None]
    ELSE [index |-> -1, warned |-> TRUE, error |-> "IndexError"]

\* lines 114-141 for one slide.  run holds the base deck's slides, the lines
\* printed and the exception that ended the run.
merge_slide(run, slide, path, k) ==
    LET r == resolve_layout(layout_name_map, master_prs.layouts, slide.layout)
        warning == IF r.warned
                   THEN <<MsgAt("LayoutNotInMaster", slide.layout, 0, path, k)>>
                   ELSE <<>>
    IN  IF r.error # None
        THEN [run EXCEPT !.log = @ \o warning, !.error = r.error]
        ELSE LET new_slide == add_slide(master_prs.layouts, r.index, path, k)
                 copied == copy_placeholders(
                              [texts |-> new_slide.texts, log |-> <<>>, error |-> None],
                              slide.placeholders, path, k)
                 texts == IF copied.error # None THEN copied.texts
                          ELSE copy_title(copied.texts, slide.placeholders)
             IN  [slides |-> Append(run.slides, [new_slide EXCEPT !.texts = texts]),
                  log |-> run.log \o warning \o copied.log,
                  error |-> copied.error]

\* a plausible slip: the slide is added after the loop, so only the last
\* slide of a deck is merged
merge_slides_last_only(run, slides, path, k) ==
    IF slides = <<>> THEN run
    ELSE merge_slide(run, slides[Len(slides)], path, Len(slides))

\* the loop of line 114 over the slides of one deck, from slide k on
RECURSIVE merge_slides(_, _, _, _)
merge_slides(run, slides, path, k) ==
    IF k > Len(slides) \/ run.error # None THEN run
    ELSE merge_slides(merge_slide(run, slides[k], path, k), slides, path, k + 1)

\* the slides added to the base deck so far
NewSlides == Cardinality({k \in 1..Len(master_prs.slides) :
                             master_prs.slides[k].layout # -1})

merge_ppt_documents_start ==
    /\ pc = "ppt"
    /\ IF files = <<>>
       THEN /\ log' = Append(log, Msg("NoFilesFound", "pptx", 0))
            /\ pc' = "done"
            /\ UNCHANGED <<master_prs, layout_name_map, i, opened, error>>
       ELSE \E base \in BaseReads(files[1]) :
              /\ opened' = Append(opened, base)
              /\ log' = Append(log, Msg("Found", "PowerPoint", Len(files)))
              /\ IF ~base.ok
                 THEN /\ error' = "OpenError"
                      /\ pc' = "aborted"
                      /\ UNCHANGED <<master_prs, layout_name_map, i>>
                 ELSE /\ master_prs' =
                           [created |-> TRUE, layouts |-> base.layouts,
                            slides |-> [k \in 1..base.nslides |-> BaseSlide(base.path, k)]]
                      /\ layout_name_map' =
                           build_layout_name_map(base.layouts, Len(base.layouts))
                      /\ i' = 2
                      /\ pc' = "ppt_loop"
                      /\ UNCHANGED error
    /\ UNCHANGED <<MERGE_TYPE, folderExists, globbed, files, master_doc, merger,
                   output>>

merge_ppt_documents_file ==
    /\ pc = "ppt_loop"
    /\ i <= Len(files)
    /\ \E source_prs \in DeckReads(files[i], MaxNewSlides - NewSlides) :
          /\ opened' = Append(opened, source_prs)
          /\ IF ~source_prs.ok
             THEN /\ log' = Append(log, Msg("Merging", files[i], 0))
                  /\ error' = "OpenError"
                  /\ pc' = "aborted"
                  /\ UNCHANGED <<master_prs, i>>
             ELSE LET run == merge_slides(
                                [slides |-> master_prs.slides, log |-> <<>>,
                                 error |-> None],
                                source_prs.slides, files[i], 1)
                  IN  /\ master_prs' = [master_prs EXCEPT !.slides = run.slides]
                      /\ log' = log \o <<Msg("Merging", files[i], 0)>> \o run.log
                      /\ error' = run.error
                      /\ IF run.error = None
                         THEN i' = i + 1 /\ pc' = pc
                         ELSE i' = i /\ pc' = "aborted"
    /\ UNCHANGED <<MERGE_TYPE, folderExists, globbed, files, master_doc, merger,
                   layout_name_map, output>>

merge_ppt_documents_save ==
    /\ pc = "ppt_loop"
    /\ i > Len(files)
    /\ \E outcome \in SaveOutcomes :
          /\ output' = AfterSave(outcome, "pptx", master_prs.slides)
          /\ log' = Append(log, IF outcome = "written"
                                THEN Msg("SuccessfullyMerged", "pptx", Len(files))
                                ELSE Msg("ErrorWhileSaving", "pptx", 0))
    /\ pc' = "done"
    /\ UNCHANGED <<MERGE_TYPE, folderExists, globbed, files, i, opened,
                   master_doc, merger, master_prs, layout_name_map, error>>

Next ==
    \/ Main
    \/ merge_word_documents_start
    \/ merge_word_documents_file
    \/ merge_word_documents_save
    \/ merge_pdf_documents_start
    \/ merge_pdf_documents_file
    \/ merge_pdf_documents_save
    \/ merge_ppt_documents_start
    \/ merge_ppt_documents_file
    \/ merge_ppt_documents_save

(***************************************************************************)
(* Properties.                                                             *)
(***************************************************************************)
\* the merger of this kind has been entered
Ran(kind) ==
    /\ Kind(MERGE_TYPE) = kind
    /\ \/ pc \notin {"start", "done"}
       \/ pc = "done" /\ log[1].msg = "Starting"

\* the bodies of the reads r[1..n], one after the other
RECURSIVE Concat(_, _)
Concat(r, n) == IF n = 0 THEN <<>> ELSE Concat(r, n - 1) \o r[n].body

IsSourceElem(e) == e.src # "template" /\ e.tag # "br"
IsNotTemplate(e) == e.src # "template"
ReadOk(r) == r.ok
ReadFailed(r) == ~r.ok

Ascending(s) == \A j, k \in 1..Len(s) : j < k => PathLess(s[j], s[k])

SameFiles(s, t) ==
    /\ Len(s) = Len(t)
    /\ {s[k] : k \in 1..Len(s)} = {t[k] : k \in 1..Len(t)}
    /\ Cardinality({s[k] : k \in 1..Len(s)}) = Len(s)

\* C1: whatever the order of the directory listing, files_list is the
\* listing's paths in strictly ascending code-point order; the k-th file
\* opened is files_list[k]; and the Word body (its own marks and the
\* template's section mark set aside) and the PDF writer's pages are exactly
\* the content of the files read so far, file after file, each file's units
\* in their source order, none doubled or missing but those of a PDF that
\* did not parse.
C1_SourceOrderPreserved ==
    /\ SameFiles(files, globbed)
    /\ Ascending(files)
    /\ Len(opened) <= Len(files)
    /\ \A k \in 1..Len(opened) : opened[k].path = files[k]
    /\ master_doc.created =>
          SelectSeq(master_doc.body, IsSourceElem) = Concat(opened, Len(opened))
    /\ merger.created => merger.pages = Concat(opened, Len(opened))

C1_Witness ==
    /\ pc = "done"
    /\ globbed = <<"a.docx", "B.docx", "a-b.docx">>
    /\ files = <<"B.docx", "a-b.docx", "a.docx">>
    /\ \A k \in 1..3 : Len(opened[k].body) = 3
    /\ output["docx"].kind = "merged"
    /\ Len(SelectSeq(output["docx"].content, IsSourceElem)) = 9

\* the body the claim C2 describes after n files have been merged: each
\* file's children, and a page break after each file but the last of the list
RECURSIVE BodyWithBreaksBetween(_)
BodyWithBreaksBetween(n) ==
    IF n = 0 THEN <<>>
    ELSE BodyWithBreaksBetween(n - 1) \o opened[n].body
         \o (IF n < Len(files) THEN <<Elem(files[n], 0, "br")>> ELSE <<>>)

\* C2: in a Word merge whose documents all open, the body holds one page
\* break after the content of each document but the last (N-1 for N
\* documents), none before the first document's content and none after the
\* last document's content.
C2_PageBreaksBetweenDocuments ==
    (master_doc.created /\ error = None) =>
        SelectSeq(master_doc.body, IsNotTemplate) = BodyWithBreaksBetween(Len(opened))

IsSkipWarning(m) == m.msg = "CouldNotMergeSkipping"

\* C3: in a PDF merge no failure to open or parse a file ends the run: each
\* such file is reported once with its path, adds no page, the loop goes on
\* to the next file and then to the final write; the pages written are those
\* of the files that parsed, in order, so their number is the sum of those
\* files' page counts.
C3_PdfSkipsCorruptInputs ==
    Ran("pdf") =>
        /\ error = None /\ pc \in {"pdf", "pdf_loop", "done"}
        /\ SelectSeq(log, IsSkipWarning) =
              [k \in 1..Len(SelectSeq(opened, ReadFailed)) |->
                  Msg("CouldNotMergeSkipping", SelectSeq(opened, ReadFailed)[k].path, 0)]
        /\ merger.created =>
              merger.pages = Concat(SelectSeq(opened, ReadOk),
                                    Len(SelectSeq(opened, ReadOk)))
        /\ pc = "pdf_loop" =>
              ENABLED (merge_pdf_documents_file \/ merge_pdf_documents_save)
        /\ (pc = "done" /\ files # <<>>) =>
              /\ Len(opened) = Len(files)
              /\ \E k \in 1..Len(log) : log[k].msg = "SavingFinalDocument"
        /\ output["pdf"].kind = "merged" =>
              output["pdf"].content = merger.pages

C3_Witness ==
    /\ pc = "done"
    /\ files = <<"a.pdf", "b.pdf", "c.pdf">>
    /\ Len(opened) = 3
    /\ opened[1].ok /\ Len(opened[1].body) = 2
    /\ ~opened[2].ok
    /\ opened[3].ok /\ Len(opened[3].body) = 1
    /\ output["pdf"].kind = "merged"
    /\ output["pdf"].content =
          <<Page("a.pdf", 1), Page("a.pdf", 2), Page("c.pdf", 1)>>
    /\ \E k \in 1..Len(log) : log[k] = Msg("CouldNotMergeSkipping", "b.pdf", 0)

\* C4: a merger called with an empty file list prints its "no files found"
\* line and does nothing else: no accumulator or writer is created, no file
\* is opened, no save is made, and the file at every output path (present
\* or not) stays as it was.
C4_EmptyListOnlyReports ==
    [][(pc \in {"word", "pdf", "ppt"} /\ files = <<>>) =>
          /\ log' = Append(log, Msg("NoFilesFound", ExtOf(pc), 0))
          /\ pc' = "done"
          /\ UNCHANGED <<master_doc, merger, master_prs, layout_name_map,
                         opened, output, error, files, i>>
          /\ ~master_doc.created /\ ~merger.created /\ ~master_prs.created]_vars

C4_Witness ==
    /\ pc = "done"
    /\ Kind(MERGE_TYPE) = "ppt"
    /\ files = <<>>
    /\ log = <<Msg("Starting", "ppt", 0), Msg("NoFilesFound", "pptx", 0)>>
    /\ output["pptx"] = OldFile
    /\ ~master_prs.created

\* the decks after the first that opened
SourceDecks == {j \in 2..Len(opened) : opened[j].ok}

\* the positions in the base deck of the slides made from slide k of a deck
NewSlidesOf(path, k) ==
    {n \in 1..Len(master_prs.slides) :
        /\ master_prs.slides[n].layout # -1
        /\ master_prs.slides[n].deck = path
        /\ master_prs.slides[n].k = k}

WarningsAt(kind, path, k) ==
    {n \in 1..Len(log) : log[n].msg = kind /\ log[n].deck = path /\ log[n].k = k}

\* the loop of line 114 has taken up slide k of the deck
Reached(path, k) ==
    NewSlidesOf(path, k) # {} \/ WarningsAt("LayoutNotInMaster", path, k) # {}

LayoutNames(layouts) == {layouts[n].name : n \in 1..Len(layouts)}

LastIndexOf(layouts, name) ==
    CHOOSE x \in 0..(Len(layouts) - 1) :
        /\ layouts[x + 1].name = name
        /\ \A y \in 0..(Len(layouts) - 1) : layouts[y + 1].name = name => y <= x

\* C5: the name map is the one built from the base deck (each name to the
\* last layout of that name) and stays so; and for every slide of a later
\* deck that the loop has taken up: with its layout name in the map, one new
\* slide made from that layout and no layout warning; with its name absent,
\* one new slide made from the base deck's slide_layouts[1] and one layout
\* warning.
C5_LayoutResolution ==
    (Ran("ppt") /\ master_prs.created) =>
        /\ master_prs.layouts = opened[1].layouts
        /\ layout_name_map =
              {<<name, LastIndexOf(master_prs.layouts, name)>> :
                  name \in LayoutNames(master_prs.layouts)}
        /\ \A j \in SourceDecks : \A k \in 1..Len(opened[j].slides) :
              Reached(opened[j].path, k) =>
                 LET name == opened[j].slides[k].layout
                     new == NewSlidesOf(opened[j].path, k)
                     warnings == WarningsAt("LayoutNotInMaster", opened[j].path, k)
                 IN  /\ Cardinality(new) = 1
                     /\ \A n \in new :
                           master_prs.slides[n].layout =
                              IF name \in LayoutNames(master_prs.layouts)
                              THEN LastIndexOf(master_prs.layouts, name)
                              ELSE FallbackIndex
                     /\ Cardinality(warnings) =
                           IF name \in LayoutNames(master_prs.layouts) THEN 0 ELSE 1

C7_MissingLayoutNeverAborts ==
    Ran("ppt") =>
        /\ error # "IndexError"
        /\ \A j \in SourceDecks : \A k \in 1..Len(opened[j].slides) :
              WarningsAt("LayoutNotInMaster", opened[j].path, k) # {} =>
                 NewSlidesOf(opened[j].path, k) # {}

UsageError ==
    <<Msg("InvalidMergeType", MERGE_TYPE, 0), Msg("PleaseSetMergeType", "", 0)>>

FolderCreated ==
    <<Msg("CreatedSourceDirectory", SOURCE_FOLDER, 0), Msg("PleaseAddFiles", "", 0)>>

NothingMerged ==
    /\ globbed = <<>> /\ files = <<>> /\ opened = <<>>
    /\ ~master_doc.created /\ ~merger.created /\ ~master_prs.created
    /\ \A e \in Exts : output[e].kind \in {"absent", "old"}

\* C8 as stated: with any merge type other than the strings word, pdf and
\* ppt, and the source folder present or absent, the run prints the usage
\* error and discovers, merges and saves nothing.
C8_AnyOtherTypePrintsUsage ==
    (MERGE_TYPE \notin {"word", "pdf", "ppt"} /\ pc # "start") =>
        /\ pc = "done"
        /\ log = UsageError
        /\ NothingMerged

\* C8 as amended: with a merge type whose lower-cased form is none of word,
\* pdf and ppt, the run ends in one step that discovers, merges and saves
\* nothing; it prints the usage error when the source folder exists, and
\* when the folder is absent it creates it and prints the instructions to
\* add files instead.
C8_InvalidTypeMergesNothing ==
    /\ [][(pc = "start"
            /\ lower(Chars(MERGE_TYPE)) \notin {Chars("word"), Chars("pdf"), Chars("ppt")})
          => /\ pc' = "done"
             /\ folderExists'
             /\ log' = log \o (IF folderExists THEN UsageError ELSE FolderCreated)
             /\ UNCHANGED <<MERGE_TYPE, globbed, files, i, opened, master_doc,
                            merger, master_prs, layout_name_map, output, error>>]_vars
    /\ [](pc = "done" => ~ENABLED Next)

C8_Witness ==
    /\ pc = "done"
    /\ MERGE_TYPE = "xls"
    /\ log = UsageError
    /\ NothingMerged
    /\ output["pptx"] = OldFile

IsSaveLine(m) == m.msg \in {"SuccessfullyMerged", "ErrorWhileSaving", "SavingFinalDocument"}

RECURSIVE Origins(_, _)
Origins(r, n) ==
    IF n = 0 THEN <<>>
    ELSE Origins(r, n - 1) \o [k \in 1..r[n].nslides |-> <<r[n].path, k>>]

SlidesAsRead(slides) ==
    /\ [n \in 1..Len(slides) |-> <<slides[n].deck, slides[n].k>>]
          = Origins(opened, Len(opened))
    /\ \A n \in 1..Len(slides) :
          IF n <= opened[1].nslides
          THEN slides[n] = BaseSlide(opened[1].path, n)
          ELSE slides[n].layout # -1

\* C10: while the slide merge runs without a failure, and in the deck it
\* saves, the slides are the base deck's own slides, unchanged and in their
\* order, followed by one new slide per slide of each later deck, in
\* file-list order and within a deck in slide order; the saved deck holds as
\* many slides as all the input decks together, and with one input deck it
\* is the base deck.
C10_SavedDeckStructure ==
    Ran("ppt") =>
        /\ (master_prs.created /\ error = None) => SlidesAsRead(master_prs.slides)
        /\ output["pptx"].kind = "merged" =>
              /\ Len(opened) = Len(files)
              /\ \A k \in 1..Len(opened) : opened[k].ok /\ opened[k].path = files[k]
              /\ SlidesAsRead(output["pptx"].content)
              /\ Len(files) = 1 =>
                    output["pptx"].content =
                       [n \in 1..opened[1].nslides |-> BaseSlide(files[1], n)]

C10_Witness ==
    /\ pc = "done"
    /\ Len(files) = 3
    /\ output["pptx"].kind = "merged"
    /\ opened[1].nslides = 1
    /\ opened[2].nslides = 2
    /\ opened[3].nslides = 1
    /\ Len(output["pptx"].content) = 4
    /\ output["pptx"].content[3].k = 2
    /\ output["pptx"].content[4].deck = files[3]

Spec == Init /\ [][Next]_vars

=============================================================================
